---- MODULE Spec2Model ----
(***************************************************************************)
(* A model of tr (src/text/tr.rs): argument validation, the SET parser,    *)
(* the membership test, the transformation map, the complement pass, the   *)
(* squeeze filter and the dispatcher of fn tr.                             *)
(*                                                                         *)
(* A char is its Unicode scalar value (a natural number); a string is a    *)
(* sequence of chars.  A Result<T, E> is a record [ok, val, err].          *)
(***************************************************************************)
EXTENDS Naturals, Integers, Sequences, FiniteSets, TLC

(***************************************************************************)
(* Bounds of the model.                                                    *)
(***************************************************************************)
\* the largest number of tokens concatenated into SET1 or SET2
MaxSetTokens == 2
\* the largest length of the generated input texts
MaxInputLen == 2
\* the largest length of the generated count n of a "[c*n]" construct
MaxCountLen == 3
\* the largest length of the generated SETs of plain chars and hyphens
MaxPlainLen == 4
\* the largest length of the generated texts that are only squeezed
MaxSqueezeLen == 4

(***************************************************************************)
(* Characters the code names.                                              *)
(***************************************************************************)
LBracket == 91
RBracket == 93
Backslash == 92
Colon == 58
EqualsSign == 61
Asterisk == 42
Hyphen == 45
PlusSign == 43
Digit0 == 48
Digit7 == 55
Digit9 == 57
UpperA == 65
UpperF == 70
UpperZ == 90
LowerA == 97
LowerF == 102
LowerZ == 122
\* usize::MAX, the counter of an operand that is never depleted and the limit
\* of checked_add; scaled to the largest integer TLC represents
UsizeMax == 2147483647

None == [some |-> FALSE]
Some(v) == [some |-> TRUE, val |-> v]

Ok(v) == [ok |-> TRUE, val |-> v, err |-> ""]
Err(msg) == [ok |-> FALSE, val |-> <<>>, err |-> msg]

RECURSIVE Replicate(_, _)
\* `for _ in 0..n { v.push(c) }`
Replicate(c, n) == IF n = 0 THEN <<>> ELSE <<c>> \o Replicate(c, n - 1)

RECURSIVE SelectFrom(_, _, _)
\* the subsequence of s at the indices i..Len(s) where mask is TRUE
SelectFrom(s, mask, i) ==
    IF i > Len(s) THEN <<>>
    ELSE (IF mask[i] THEN <<s[i]>> ELSE <<>>) \o SelectFrom(s, mask, i + 1)

\* Iterator::filter over the chars of s: those at the indices where mask is TRUE
Filter(s, mask) == SelectFrom(s, mask, 1)

\* the number of occurrences of c in s
Count(s, c) == Cardinality({i \in 1..Len(s) : s[i] = c})

\* the range a..=b of chars as a sequence (empty when a > b)
CharRange(a, b) == [i \in 1..(IF b >= a THEN b - a + 1 ELSE 0) |-> a + i - 1]

(***************************************************************************)
(* The operand model.                                                      *)
(***************************************************************************)
AsManyAsNeeded == [tag |-> "AsManyAsNeeded", n |-> 0]
N(n) == [tag |-> "N", n |-> n]

Char(c, rep) == [kind |-> "Char", char |-> c, char_repetition |-> rep]
Equiv(c) == [kind |-> "Equiv", char |-> c]

\* deunicode_char: an ASCII char transliterates to itself; of the non-ASCII
\* chars the model uses e-acute (233), which transliterates to "e" (101)
DeunicodeChar(c) == IF c = 233 THEN 101 ELSE c

compare_deunicoded_chars(char1, char2) == DeunicodeChar(char1) = DeunicodeChar(char2)

\* Operand::contains
OperandMatches(op, target) ==
    IF op.kind = "Equiv" THEN compare_deunicoded_chars(op.char, target)
    ELSE op.char = target

Contains(operands, target) ==
    \E i \in 1..Len(operands) : OperandMatches(operands[i], target)

(***************************************************************************)
(* The SET parser.                                                         *)
(***************************************************************************)
IsOctalDigit(c) == c >= Digit0 /\ c <= Digit7

IsAlnumOrBackslash(c) ==
    \/ c >= LowerA /\ c <= LowerZ
    \/ c >= UpperA /\ c <= UpperZ
    \/ c >= Digit0 /\ c <= Digit9
    \/ c = Backslash

RECURSIVE DigitsValue(_, _, _)
\* the value of a digit string in a radix, most significant digit first, by
\* checked_mul and checked_add: None once the value is beyond UsizeMax
DigitsValue(digits, radix, acc) ==
    IF digits = <<>> THEN Some(acc)
    ELSE IF acc > (UsizeMax - (Head(digits) - Digit0)) \div radix THEN None
    ELSE DigitsValue(Tail(digits), radix, acc * radix + (Head(digits) - Digit0))

\* usize::from_str_radix, u16::from_str_radix, u32::from_str_radix for a
\* radix of at most 10: an optional leading '+', then one or more digits of
\* the radix.  Overflow of the integer type is reported for a value beyond
\* UsizeMax (the scaled width).
from_str_radix(st, radix) ==
    LET digits == IF st # <<>> /\ st[1] = PlusSign THEN Tail(st) ELSE st
    IN  IF digits = <<>> THEN Err("ParseIntError")
        ELSE IF \E i \in 1..Len(digits) :
                    digits[i] < Digit0 \/ digits[i] > Digit0 + radix - 1
             THEN Err("ParseIntError")
        ELSE LET value == DigitsValue(digits, radix, 0)
             IN  IF value.some THEN Ok(value.val) ELSE Err("ParseIntError")

\* parse_equiv over the chars of a "[=...=]" bracket run
parse_equiv(chars) ==
    LET stops == {k \in 3..Len(chars) : chars[k] = EqualsSign}
        stop == IF stops = {} THEN Len(chars) + 1
                ELSE CHOOSE k \in stops : \A m \in stops : k <= m
        equiv == SubSeq(chars, 3, stop - 1)
    IN  IF equiv = <<>> THEN Err("Error: Missing equiv symbol after '[='")
        ELSE IF stop > Len(chars)
             THEN Err("Error: Missing '=' before ']' for '[=equiv=]'")
        ELSE IF stop + 1 > Len(chars) \/ chars[stop + 1] # RBracket
             THEN Err("Error: Missing closing ']' for '[=equiv=]'")
        ELSE Ok([i \in 1..Len(equiv) |-> Equiv(equiv[i])])

\* a count that is read in base 10 whatever its first digit
RepeatCount_always_decimal(repeat_string) ==
    IF repeat_string = <<>> THEN Ok(AsManyAsNeeded)
    ELSE LET parsed == from_str_radix(repeat_string, 10)
         IN  IF ~parsed.ok THEN Err("tr: invalid repeat count in [c*n] construct")
             ELSE IF parsed.val = 0 THEN Ok(AsManyAsNeeded)
             ELSE Ok(N(parsed.val))

\* the repetition parse_repeated_char reads from the text between '*' and ']'
RepeatCount(repeat_string) ==
    IF repeat_string = <<>> THEN Ok(AsManyAsNeeded)
    ELSE LET radix == IF repeat_string[1] = Digit0 THEN 8 ELSE 10
             parsed == from_str_radix(repeat_string, radix)
         IN  IF ~parsed.ok THEN Err("tr: invalid repeat count in [c*n] construct")
             ELSE IF parsed.val = 0 THEN Ok(AsManyAsNeeded)
             ELSE Ok(N(parsed.val))

\* parse_repeated_char over the chars of a "[c*n]" bracket run
parse_repeated_char(chars) ==
    LET char == chars[2]
        repeat_string == SubSeq(chars, 4, Len(chars) - 1)
        char_repetition == RepeatCount(repeat_string)
    IN  IF ~char_repetition.ok THEN char_repetition
        ELSE Ok(Char(char, char_repetition.val))

\* the class names, as strings
ClassAlnum == <<97, 108, 110, 117, 109>>
ClassAlpha == <<97, 108, 112, 104, 97>>
ClassDigit == <<100, 105, 103, 105, 116>>
ClassLower == <<108, 111, 119, 101, 114>>
ClassUpper == <<117, 112, 112, 101, 114>>
ClassSpace == <<115, 112, 97, 99, 101>>
ClassBlank == <<98, 108, 97, 110, 107>>
ClassCntrl == <<99, 110, 116, 114, 108>>
ClassGraph == <<103, 114, 97, 112, 104>>
ClassPrint == <<112, 114, 105, 110, 116>>
ClassPunct == <<112, 117, 110, 99, 116>>
ClassXdigit == <<120, 100, 105, 103, 105, 116>>

\* expand_character_class: the chars of a class, in table order
expand_character_class(class) ==
    LET digits == CharRange(Digit0, Digit9)
        upper == CharRange(UpperA, UpperZ)
        lower == CharRange(LowerA, LowerZ)
    IN  CASE class = ClassAlnum -> Ok(digits \o upper \o lower)
          [] class = ClassAlpha -> Ok(upper \o lower)
          [] class = ClassDigit -> Ok(digits)
          [] class = ClassLower -> Ok(lower)
          [] class = ClassUpper -> Ok(upper)
          [] class = ClassSpace -> Ok(<<32, 9, 10, 13, 11, 12>>)
          [] class = ClassBlank -> Ok(<<32, 9>>)
          [] class = ClassCntrl -> Ok(CharRange(0, 31) \o <<127>>)
          [] class = ClassGraph -> Ok(CharRange(33, 126))
          [] class = ClassPrint -> Ok(CharRange(32, 126))
          [] class = ClassPunct ->
                Ok(CharRange(33, 47) \o CharRange(58, 64) \o CharRange(91, 96)
                   \o CharRange(123, 126))
          [] class = ClassXdigit ->
                Ok(digits \o CharRange(UpperA, UpperF) \o CharRange(LowerA, LowerF))
          [] OTHER -> Err("Error: Invalid class name ")

\* every char of chars as a literal with a repetition of 1
Literals(chars) == [i \in 1..Len(chars) |-> Char(chars[i], N(1))]

\* the chars `for ch in iterator.by_ref()` collects from the '[' at index i:
\* up to and including the first ']' that makes the run longer than 3, or
\* the rest of the string
BracketRun(s, i) ==
    LET closing == {j \in i..Len(s) : s[j] = RBracket /\ j - i + 1 > 3}
        last == IF closing = {} THEN Len(s)
                ELSE CHOOSE j \in closing : \A m \in closing : j <= m
    IN  [vec |-> SubSeq(s, i, last), found_closing_square_bracket |-> closing # {}]

\* the operands of one '[' arm of parse_symbols
BracketOperands(vec, found_closing_square_bracket) ==
    IF found_closing_square_bracket /\ vec[2] = Colon /\ vec[Len(vec) - 1] = Colon
    THEN LET class == expand_character_class(SubSeq(vec, 3, Len(vec) - 2))
         IN  IF class.ok THEN Ok(Literals(class.val)) ELSE class
    ELSE IF found_closing_square_bracket /\ vec[2] = EqualsSign
            /\ vec[Len(vec) - 1] = EqualsSign
    THEN parse_equiv(vec)
    ELSE IF found_closing_square_bracket /\ vec[3] = Asterisk
    THEN LET operand == parse_repeated_char(vec)
         IN  IF operand.ok THEN Ok(<<operand.val>>) ELSE operand
    ELSE Ok(Literals(vec))

\* the octal digits of a "\ddd" escape whose first digit is at index i
OctalRun(s, i) ==
    IF i + 1 <= Len(s) /\ IsOctalDigit(s[i + 1])
    THEN IF i + 2 <= Len(s) /\ IsOctalDigit(s[i + 2])
         THEN SubSeq(s, i, i + 2)
         ELSE SubSeq(s, i, i + 1)
    ELSE SubSeq(s, i, i)

\* the char a backslash followed by cha stands for
EscapedChar(cha) ==
    CASE cha = 97 -> 7
      [] cha = 98 -> 8
      [] cha = 116 -> 9
      [] cha = 110 -> 10
      [] cha = 118 -> 11
      [] cha = 102 -> 12
      [] cha = 114 -> 13
      [] OTHER -> cha

RECURSIVE ParseSymbolsFrom(_, _, _)
\* the loop of parse_symbols with the iterator at index i
ParseSymbolsFrom(s, i, operand_vec) ==
    IF i > Len(s) THEN Ok(operand_vec)
    ELSE IF s[i] = LBracket
    THEN LET run == BracketRun(s, i)
             ops == BracketOperands(run.vec, run.found_closing_square_bracket)
         IN  IF ~ops.ok THEN ops
             ELSE ParseSymbolsFrom(s, i + Len(run.vec), operand_vec \o ops.val)
    ELSE IF s[i] = Backslash
    THEN IF i + 1 > Len(s)
         THEN ParseSymbolsFrom(s, i + 1, Append(operand_vec, Char(Backslash, N(1))))
         ELSE IF IsOctalDigit(s[i + 1])
         THEN LET st == OctalRun(s, i + 1)
                  octal_digits_parsed == from_str_radix(st, 8)
              IN  IF ~octal_digits_parsed.ok
                  THEN Err("tr: failed to parse octal sequence")
                  ELSE IF octal_digits_parsed.val > 255
                  THEN Err("tr: invalid octal sequence")
                  ELSE ParseSymbolsFrom(s, i + 1 + Len(st),
                           Append(operand_vec, Char(octal_digits_parsed.val, N(1))))
         ELSE ParseSymbolsFrom(s, i + 2,
                  Append(operand_vec, Char(EscapedChar(s[i + 1]), N(1))))
    ELSE ParseSymbolsFrom(s, i + 1, Append(operand_vec, Char(s[i], N(1))))

parse_symbols(string1_or_string2) == ParseSymbolsFrom(string1_or_string2, 1, <<>>)

\* char::from_u32: a scalar value is at most 0x10FFFF and no surrogate
IsScalarValue(code) == code <= 1114111 /\ (code < 55296 \/ code > 57343)

\* the chars of start..=end, which skips the surrogates
ScalarRange(a, b) ==
    IF b < 55296 \/ a > 57343 THEN CharRange(a, b)
    ELSE CharRange(a, 55295) \o CharRange(57344, b)

\* parse_octal
parse_octal(st) ==
    LET parsed == from_str_radix(st, 8)
    IN  IF parsed.ok /\ IsScalarValue(parsed.val) THEN Some(parsed.val) ELSE None

\* contains_single_range: the three alternatives of the regular expression
MatchesBracketedRange(s) ==
    /\ Len(s) >= 5
    /\ s[1] = LBracket
    /\ s[Len(s)] = RBracket
    /\ \E h \in 3..(Len(s) - 2) :
          /\ s[h] = Hyphen
          /\ \A k \in 2..(Len(s) - 1) : k # h => IsAlnumOrBackslash(s[k])

MatchesOctalEscape(s) ==
    /\ Len(s) >= 2
    /\ Len(s) <= 4
    /\ s[1] = Backslash
    /\ \A k \in 2..Len(s) : IsOctalDigit(s[k])

MatchesOctalRange(s) ==
    \E h \in 1..Len(s) :
        /\ s[h] = Hyphen
        /\ MatchesOctalEscape(SubSeq(s, 1, h - 1))
        /\ MatchesOctalEscape(SubSeq(s, h + 1, Len(s)))

MatchesCharRange(s) ==
    /\ Len(s) = 3
    /\ s[2] = Hyphen
    /\ IsAlnumOrBackslash(s[1]) /\ s[1] # Backslash
    /\ IsAlnumOrBackslash(s[3]) /\ s[3] # Backslash

\* a regular expression that is not anchored: a range anywhere in the string
contains_single_range_unanchored(string1_or_string2) ==
    \E i \in 1..Len(string1_or_string2) : \E j \in i..Len(string1_or_string2) :
        LET part == SubSeq(string1_or_string2, i, j)
        IN  \/ MatchesBracketedRange(part)
            \/ MatchesOctalRange(part)
            \/ MatchesCharRange(part)

contains_single_range(string1_or_string2) ==
    \/ MatchesBracketedRange(string1_or_string2)
    \/ MatchesOctalRange(string1_or_string2)
    \/ MatchesCharRange(string1_or_string2)

RECURSIVE TrimBrackets(_)
\* str::trim_matches(|ch| ch == '[' || ch == ']')
TrimBrackets(s) ==
    IF s = <<>> THEN s
    ELSE IF s[1] = LBracket \/ s[1] = RBracket THEN TrimBrackets(Tail(s))
    ELSE IF s[Len(s)] = LBracket \/ s[Len(s)] = RBracket
         THEN TrimBrackets(SubSeq(s, 1, Len(s) - 1))
    ELSE s

\* the index of the first '-' of s at or after index i, Len(s) + 1 if none
NextHyphen(s, i) ==
    LET hyphens == {k \in i..Len(s) : s[k] = Hyphen}
    IN  IF hyphens = {} THEN Len(s) + 1
        ELSE CHOOSE k \in hyphens : \A m \in hyphens : k <= m

\* parse_ranges
parse_ranges(string1_or_string2) ==
    LET input_without_square_brackets == TrimBrackets(string1_or_string2)
        h1 == NextHyphen(input_without_square_brackets, 1)
        h2 == NextHyphen(input_without_square_brackets, h1 + 1)
        start == SubSeq(input_without_square_brackets, 1, h1 - 1)
        end == SubSeq(input_without_square_brackets, h1 + 1, h2 - 1)
        start_escaped == start # <<>> /\ start[1] = Backslash
        end_escaped == end # <<>> /\ end[1] = Backslash
    IN  IF h1 > Len(input_without_square_brackets) THEN Err("Iteration failed")
        ELSE IF start_escaped /\ end_escaped
        THEN LET start_char == parse_octal(Tail(start))
                 end_char == parse_octal(Tail(end))
             IN  IF start_char.some /\ end_char.some
                 THEN Ok(Literals(ScalarRange(start_char.val, end_char.val)))
                 ELSE Ok(<<>>)
        ELSE IF ~start_escaped /\ ~end_escaped
        THEN IF start = <<>> \/ end = <<>> THEN Err("panicked: unwrap on None")
             ELSE Ok(Literals(ScalarRange(start[1], end[1])))
        ELSE Ok(<<>>)

\* parse_string1_or_string2
parse_string1_or_string2(string1_or_string2) ==
    IF contains_single_range(string1_or_string2)
    THEN parse_ranges(string1_or_string2)
    ELSE parse_symbols(string1_or_string2)

(***************************************************************************)
(* complement_chars.                                                       *)
(***************************************************************************)
\* the counters complement_chars starts from: the count of a Char operand
\* with a fixed repetition, usize::MAX for every other operand
InitialDepleted(chars2) ==
    [i \in 1..Len(chars2) |->
        IF chars2[i].kind = "Char" /\ chars2[i].char_repetition.tag = "N"
        THEN chars2[i].char_repetition.n
        ELSE UsizeMax]

\* `chars2_index += 1` without the wrap to the start of chars2
AdvanceIndex_never_wraps(st, chars2, depleted_clone) ==
    [st EXCEPT !.chars2_index = st.chars2_index + 1]

\* the wrap to the start of chars2 without the reset of the counters
AdvanceIndexKeepsCounters(st, chars2, depleted_clone) ==
    IF st.chars2_index + 1 >= Len(chars2)
    THEN [st EXCEPT !.chars2_index = 0]
    ELSE [st EXCEPT !.chars2_index = st.chars2_index + 1]

\* `chars2_index += 1` and the wrap to the start of chars2
AdvanceIndex(st, chars2, depleted_clone) ==
    IF st.chars2_index + 1 >= Len(chars2)
    THEN [st EXCEPT !.chars2_index = 0, !.depleted = depleted_clone]
    ELSE [st EXCEPT !.chars2_index = st.chars2_index + 1]

\* one iteration of `for ch in input.chars()`; chars2_index counts from 0.
\* A counter of 0 makes `(*mut_ref) - 1` overflow, which is recorded as an
\* error of the pass.
ComplementStep(st, ch, chars1, chars2, depleted_clone) ==
    IF st.err # "" THEN st
    ELSE IF Contains(chars1, ch) THEN [st EXCEPT !.result = Append(@, ch)]
    ELSE IF st.chars2_index >= Len(chars2) THEN [st EXCEPT !.err = "Indexing failed"]
    ELSE LET operand == chars2[st.chars2_index + 1]
             pushed == [st EXCEPT !.result = Append(@, operand.char)]
         IN  IF operand.kind = "Char"
             THEN IF st.depleted[st.chars2_index + 1] = 0
                  THEN [st EXCEPT !.err = "attempt to subtract with overflow"]
                  ELSE LET decremented == st.depleted[st.chars2_index + 1] - 1
                           stored == [pushed EXCEPT
                                        !.depleted[st.chars2_index + 1] = decremented]
                       IN  IF decremented > 0 THEN stored
                           ELSE AdvanceIndex(stored, chars2, depleted_clone)
             ELSE AdvanceIndex(pushed, chars2, depleted_clone)

RECURSIVE ComplementLoop(_, _, _, _, _, _)
ComplementLoop(input, i, st, chars1, chars2, depleted_clone) ==
    IF i > Len(input) THEN st
    ELSE ComplementLoop(input, i + 1,
             ComplementStep(st, input[i], chars1, chars2, depleted_clone),
             chars1, chars2, depleted_clone)

complement_chars(input, chars1, chars2) ==
    LET depleted == InitialDepleted(chars2)
        final == ComplementLoop(input, 1,
                     [result |-> <<>>, chars2_index |-> 0, depleted |-> depleted,
                      err |-> ""],
                     chars1, chars2, depleted)
    IN  IF final.err # "" THEN Err(final.err) ELSE Ok(final.result)

\* the comparison of set2.sort_by: by the stored char of either operand
OperandLess(a, b) == a.char < b.char

RECURSIVE InsertSorted(_, _)
\* sorted with op placed after every operand that is not greater than it
InsertSorted(sorted, op) ==
    IF sorted = <<>> THEN <<op>>
    ELSE IF OperandLess(op, Head(sorted)) THEN <<op>> \o sorted
    ELSE <<Head(sorted)>> \o InsertSorted(Tail(sorted), op)

RECURSIVE SortOperands(_)
\* slice::sort_by, a stable sort
SortOperands(ops) ==
    IF ops = <<>> THEN <<>>
    ELSE InsertSorted(SortOperands(SubSeq(ops, 1, Len(ops) - 1)), ops[Len(ops)])

(***************************************************************************)
(* The squeeze filter.                                                     *)
(***************************************************************************)
\* the histogram `char_counts` of a text
CharCounts(text) ==
    [c \in {text[i] : i \in 1..Len(text)} |-> Count(text, c)]

\* check_repeatable without the test of membership in set2
check_repeatable_any_set(ch, char_counts, seen, set2) ==
    IF char_counts[ch] > 1
    THEN IF ch \in seen THEN [keep |-> FALSE, seen |-> seen]
         ELSE [keep |-> TRUE, seen |-> seen \cup {ch}]
    ELSE [keep |-> TRUE, seen |-> seen]

\* check_repeatable that never records a char as seen
check_repeatable_never_seen(ch, char_counts, seen, set2) ==
    [keep |-> TRUE, seen |-> seen]

\* check_repeatable that drops every occurrence of a repeated member of set2
check_repeatable_drops_first(ch, char_counts, seen, set2) ==
    IF char_counts[ch] > 1 /\ Contains(set2, ch)
    THEN [keep |-> FALSE, seen |-> seen \cup {ch}]
    ELSE [keep |-> TRUE, seen |-> seen]

\* check_repeatable: whether ch is kept, and `seen` afterwards
check_repeatable(ch, char_counts, seen, set2) ==
    IF char_counts[ch] > 1 /\ Contains(set2, ch)
    THEN IF ch \in seen THEN [keep |-> FALSE, seen |-> seen]
         ELSE [keep |-> TRUE, seen |-> seen \cup {ch}]
    ELSE [keep |-> TRUE, seen |-> seen]

RECURSIVE SqueezeFrom(_, _, _, _, _)
\* the filter over text.chars() from index i on
SqueezeFrom(text, i, char_counts, seen, set) ==
    IF i > Len(text) THEN <<>>
    ELSE LET r == check_repeatable(text[i], char_counts, seen, set)
         IN  (IF r.keep THEN <<text[i]>> ELSE <<>>)
             \o SqueezeFrom(text, i + 1, char_counts, r.seen, set)

\* the squeeze of a text against a reference set
SqueezeRepeats(text, set) == SqueezeFrom(text, 1, CharCounts(text), {}, set)

(***************************************************************************)
(* generate_transformation_hash_map.                                       *)
(***************************************************************************)
\* usize::checked_add
checked_add(a, b) == IF a + b > UsizeMax THEN None ELSE Some(a + b)

RECURSIVE FlattenString1(_, _, _, _)
\* the first loop: string1_operands_flattened and char_repeating_total
FlattenString1(string1_operands, i, char_repeating_total, flattened) ==
    IF i > Len(string1_operands)
    THEN Ok([total |-> char_repeating_total, flattened |-> flattened])
    ELSE LET op == string1_operands[i]
         IN  IF op.kind # "Char" THEN Err("Expectation violated")
             ELSE IF op.char_repetition.tag = "AsManyAsNeeded"
             THEN Err("tr: the [c*] repeat construct may not appear in string1")
             ELSE LET sum == checked_add(char_repeating_total, op.char_repetition.n)
                  IN  IF ~sum.some THEN Err("Arithmetic overflow")
                      ELSE FlattenString1(string1_operands, i + 1, sum.val,
                               flattened \o Replicate(op.char, op.char_repetition.n))

RECURSIVE ScanString2(_, _, _, _)
\* the second loop: as_many_as_needed_index (counted from 0) and
\* replacement_char_repeating_total
ScanString2(string2_operands, i, as_many_as_needed_index, total) ==
    IF i > Len(string2_operands)
    THEN Ok([as_many_as_needed_index |-> as_many_as_needed_index, total |-> total])
    ELSE LET op == string2_operands[i]
         IN  IF op.kind # "Char" THEN Err("Expectation violated")
             ELSE IF op.char_repetition.tag = "AsManyAsNeeded"
             THEN IF as_many_as_needed_index.some
                  THEN Err("tr: only one [c*] repeat construct may appear in string2")
                  ELSE ScanString2(string2_operands, i + 1, Some(i - 1), total)
             ELSE LET sum == checked_add(total, op.char_repetition.n)
                  IN  IF ~sum.some THEN Err("Arithmetic overflow")
                      ELSE ScanString2(string2_operands, i + 1,
                               as_many_as_needed_index, sum.val)

\* an extension that pads one char too few
ExtendString2_one_short(string2_operands, as_many_as_needed_index, replacement_total, total) ==
    IF replacement_total < total
    THEN LET us == IF as_many_as_needed_index.some
                   THEN as_many_as_needed_index.val + 1
                   ELSE Len(string2_operands)
             op == string2_operands[us]
             n == IF op.char_repetition.tag = "N" THEN op.char_repetition.n ELSE 0
         IN  Ok([string2_operands EXCEPT
                    ![us] = Char(op.char, N(n + total - replacement_total - 1))])
    ELSE Ok(string2_operands)

\* string2_operands_to_use: string2 extended by the leftover of string1;
\* total is char_repeating_total, replacement_total is
\* replacement_char_repeating_total
ExtendString2(string2_operands, as_many_as_needed_index, replacement_total, total) ==
    IF replacement_total < total
    THEN LET leftover == total - replacement_total
         IN  IF as_many_as_needed_index.some
             THEN LET us == as_many_as_needed_index.val + 1
                  IN  IF us > Len(string2_operands) THEN Err("Indexing failed")
                      ELSE IF string2_operands[us].kind # "Char"
                      THEN Err("Expectation violated")
                      ELSE Ok([string2_operands EXCEPT
                                 ![us] = Char(string2_operands[us].char, N(leftover))])
             ELSE IF string2_operands = <<>> THEN Err("Unexpected empty collection")
             ELSE LET op == string2_operands[Len(string2_operands)]
                  IN  IF op.kind # "Char" \/ op.char_repetition.tag # "N"
                      THEN Err("Expectation violated")
                      ELSE LET current_n_plus_leftover ==
                                   checked_add(op.char_repetition.n, leftover)
                           IN  IF ~current_n_plus_leftover.some
                               THEN Err("Arithmetic overflow")
                               ELSE Ok([string2_operands EXCEPT
                                          ![Len(string2_operands)] =
                                              Char(op.char, N(current_n_plus_leftover.val))])
    ELSE Ok(string2_operands)

RECURSIVE FlattenString2_marker_once(_, _, _)
\* a flattening in which a [c*] left without a count stands for one char
FlattenString2_marker_once(string2_operands_to_use, i, flattened) ==
    IF i > Len(string2_operands_to_use) THEN Ok(flattened)
    ELSE LET op == string2_operands_to_use[i]
         IN  IF op.kind # "Char" THEN Err("Expectation violated")
             ELSE IF op.char_repetition.tag = "N"
             THEN FlattenString2_marker_once(string2_operands_to_use, i + 1,
                      flattened \o Replicate(op.char, op.char_repetition.n))
             ELSE FlattenString2_marker_once(string2_operands_to_use, i + 1,
                      Append(flattened, op.char))

RECURSIVE FlattenString2(_, _, _)
\* the third loop: string2_operands_to_use_flattened
FlattenString2(string2_operands_to_use, i, flattened) ==
    IF i > Len(string2_operands_to_use) THEN Ok(flattened)
    ELSE LET op == string2_operands_to_use[i]
         IN  IF op.kind # "Char" THEN Err("Expectation violated")
             ELSE IF op.char_repetition.tag = "N"
             THEN FlattenString2(string2_operands_to_use, i + 1,
                      flattened \o Replicate(op.char, op.char_repetition.n))
             ELSE FlattenString2(string2_operands_to_use, i + 1, flattened)

\* a map that keeps the first value inserted for a key
MapInsertKeepsFirst(map, ch, cha) ==
    IF ch \in DOMAIN map THEN map
    ELSE [x \in (DOMAIN map) \cup {ch} |-> IF x = ch THEN cha ELSE map[x]]

\* HashMap::insert
MapInsert(map, ch, cha) ==
    [x \in (DOMAIN map) \cup {ch} |-> IF x = ch THEN cha ELSE map[x]]

RECURSIVE InsertPairs(_, _, _, _)
\* the last loop: the i-th flattened char of string1 maps to the i-th of string2
InsertPairs(string1_flattened, string2_flattened, us, translation_hash_map) ==
    IF us > Len(string1_flattened) THEN Ok(translation_hash_map)
    ELSE IF us > Len(string2_flattened) THEN Err("Indexing failed")
    ELSE InsertPairs(string1_flattened, string2_flattened, us + 1,
             MapInsert(translation_hash_map, string1_flattened[us], string2_flattened[us]))

EmptyMap == [x \in {} |-> 0]

generate_transformation_hash_map(string1_operands, string2_operands) ==
    LET first == FlattenString1(string1_operands, 1, 0, <<>>)
    IN  IF ~first.ok THEN first
        ELSE LET scan == ScanString2(string2_operands, 1, None, 0)
             IN  IF ~scan.ok THEN scan
                 ELSE LET to_use == ExtendString2(string2_operands,
                                        scan.val.as_many_as_needed_index,
                                        scan.val.total, first.val.total)
                      IN  IF ~to_use.ok THEN to_use
                          ELSE LET second == FlattenString2(to_use.val, 1, <<>>)
                               IN  IF ~second.ok THEN second
                                   ELSE InsertPairs(first.val.flattened, second.val,
                                            1, EmptyMap)

\* `match transformation_map.get(&ch)` for every char of the input
TranslateChars(input, transformation_map) ==
    [i \in 1..Len(input) |->
        IF input[i] \in DOMAIN transformation_map
        THEN transformation_map[input[i]]
        ELSE input[i]]

(***************************************************************************)
(* The command lines and input texts of the model.                         *)
(***************************************************************************)
\* the tokens SET1 is made of: "a", "b", "[=e=]"
Set1Tokens == { <<97>>, <<98>>, <<91, 61, 101, 61, 93>> }
\* the tokens SET2 is made of: "a", "[b*2]", "[a*]"
Set2Tokens == { <<97>>, <<91, 98, 42, 50, 93>>, <<91, 97, 42, 93>> }

RECURSIVE TokenStrings(_, _)
\* the concatenations of at most n tokens
TokenStrings(tokens, n) ==
    IF n = 0 THEN { <<>> }
    ELSE LET shorter == TokenStrings(tokens, n - 1)
         IN  shorter \cup { st \o t : st \in shorter, t \in tokens }

\* "abc" and "xyz"
ExampleString1 == <<97, 98, 99>>
ExampleString2 == <<120, 121, 122>>

\* further values of SET1: "a[a*]", "[b*2]a"
MoreString1 == { <<97, 91, 97, 42, 93>>, <<91, 98, 42, 50, 93, 97>> }
\* further values of SET2: "[=e=]a"
MoreString2 == { <<91, 61, 101, 61, 93, 97>> }

String1Values ==
    TokenStrings(Set1Tokens, MaxSetTokens) \cup { ExampleString1 } \cup MoreString1
String2Values ==
    { None } \cup { Some(st) : st \in TokenStrings(Set2Tokens, MaxSetTokens)
                                      \cup { ExampleString2 } \cup MoreString2 }

RECURSIVE Texts(_, _)
\* the texts of at most n chars over an alphabet
Texts(alphabet, n) ==
    IF n = 0 THEN { <<>> }
    ELSE LET shorter == Texts(alphabet, n - 1)
         IN  shorter \cup { Append(t, c) : t \in shorter, c \in alphabet }

\* 'a', 'b'
InputAlphabet == { 97, 98 }

\* "cab", "banana", "aaabaaa", and "e-acute a"
ExampleInputs ==
    { <<99, 97, 98>>, <<98, 97, 110, 97, 110, 97>>, <<97, 97, 97, 98, 97, 97, 97>>,
      <<233, 97>> }

InputValues == Texts(InputAlphabet, MaxInputLen) \cup ExampleInputs

(***************************************************************************)
(* The state of one invocation.                                            *)
(***************************************************************************)
VARIABLES
    pc,                       \* the statement main / tr is at
    args,                     \* struct Args
    input,                    \* the text read from the standard input
    string1_operands,
    string2_operands_option,
    transformation_map,
    result_string,            \* filtered_string / result_string
    to_write,                 \* filtered_string_to_use / result_string_to_use
    stdout,                   \* the writes made to the standard output, in order
    err,                      \* the message of the error the invocation ended in
    failed_at,                \* the statement that returned the error
    exit_code

vars == <<pc, args, input, string1_operands, string2_operands_option,
          transformation_map, result_string, to_write, stdout, err, failed_at,
          exit_code>>

NoArgs ==
    [delete |-> FALSE, squeeze_repeats |-> FALSE, complement_val |-> FALSE,
     complement_char |-> FALSE, string1 |-> <<>>, string2 |-> None]

Init ==
    /\ pc = "main"
    /\ args = NoArgs
    /\ input = <<>>
    /\ string1_operands = <<>>
    /\ string2_operands_option = None
    /\ transformation_map = EmptyMap
    /\ result_string = <<>>
    /\ to_write = <<>>
    /\ stdout = <<>>
    /\ err = ""
    /\ failed_at = ""
    /\ exit_code = -1

\* an Err returned up to main: the message is printed and the exit status is 1
Fail(msg) ==
    /\ err' = msg
    /\ failed_at' = pc
    /\ exit_code' = 1
    /\ pc' = "exit"

\* a panic of the thread (an unwrap of None)
Panic(msg) ==
    /\ err' = msg
    /\ failed_at' = pc
    /\ exit_code' = 101
    /\ pc' = "exit"

\* Args::parse
ParseArgs ==
    /\ pc = "main"
    /\ \E d \in BOOLEAN, sq \in BOOLEAN, cv \in BOOLEAN, cc \in BOOLEAN,
          s1 \in String1Values, s2 \in String2Values :
          args' = [delete |-> d, squeeze_repeats |-> sq, complement_val |-> cv,
                   complement_char |-> cc, string1 |-> s1, string2 |-> s2]
    /\ pc' = "validate"
    /\ UNCHANGED <<input, string1_operands, string2_operands_option,
                   transformation_map, result_string, to_write, stdout, err,
                   failed_at, exit_code>>

\* validate_args whose second test leaves out `!self.delete`
validate_args_ignores_delete(a) ==
    IF a.complement_char /\ a.complement_val
    THEN Err("Options '-c' and '-C' cannot be used together")
    ELSE IF a.squeeze_repeats /\ ~a.string2.some
            /\ (a.complement_char \/ a.complement_val)
    THEN Err("Option '-c' or '-C' may only be used with 2 strings")
    ELSE IF ~a.squeeze_repeats /\ ~a.delete /\ ~a.string2.some
    THEN Err("Need two strings operand")
    ELSE IF a.string1 = <<>>
    THEN Err("At least 1 string operand is required")
    ELSE Ok(<<>>)

\* validate_args without the test for the two strings of a translation
validate_args_allows_one_string(a) ==
    IF a.complement_char /\ a.complement_val
    THEN Err("Options '-c' and '-C' cannot be used together")
    ELSE IF a.squeeze_repeats /\ ~a.string2.some
            /\ (a.complement_char \/ a.complement_val) /\ ~a.delete
    THEN Err("Option '-c' or '-C' may only be used with 2 strings")
    ELSE IF a.string1 = <<>>
    THEN Err("At least 1 string operand is required")
    ELSE Ok(<<>>)

\* Args::validate_args
validate_args(a) ==
    IF a.complement_char /\ a.complement_val
    THEN Err("Options '-c' and '-C' cannot be used together")
    ELSE IF a.squeeze_repeats /\ ~a.string2.some
            /\ (a.complement_char \/ a.complement_val) /\ ~a.delete
    THEN Err("Option '-c' or '-C' may only be used with 2 strings")
    ELSE IF ~a.squeeze_repeats /\ ~a.delete /\ ~a.string2.some
    THEN Err("Need two strings operand")
    ELSE IF a.string1 = <<>>
    THEN Err("At least 1 string operand is required")
    ELSE Ok(<<>>)

\* main: `args.validate_args()?`
ValidateArgs ==
    /\ pc = "validate"
    /\ LET r == validate_args(args)
       IN  IF r.ok
           THEN /\ pc' = "read"
                /\ UNCHANGED <<err, failed_at, exit_code>>
           ELSE Fail(r.err)
    /\ UNCHANGED <<args, input, string1_operands, string2_operands_option,
                   transformation_map, result_string, to_write, stdout>>

\* tr: `io::stdin().read_to_string(&mut input)`
ReadInput ==
    /\ pc = "read"
    /\ input' \in InputValues
    /\ pc' = "parse1"
    /\ UNCHANGED <<args, string1_operands, string2_operands_option,
                   transformation_map, result_string, to_write, stdout, err,
                   failed_at, exit_code>>

\* tr: `let string1_operands = parse_string1_or_string2(&args.string1)?`
ParseString1 ==
    /\ pc = "parse1"
    /\ LET r == parse_string1_or_string2(args.string1)
       IN  IF r.ok
           THEN /\ string1_operands' = r.val
                /\ pc' = "parse2"
                /\ UNCHANGED <<err, failed_at, exit_code>>
           ELSE /\ Fail(r.err)
                /\ UNCHANGED string1_operands
    /\ UNCHANGED <<args, input, string2_operands_option, transformation_map,
                   result_string, to_write, stdout>>

\* tr: `let string2_operands_option = match &args.string2 { ... }`
ParseString2 ==
    /\ pc = "parse2"
    /\ IF ~args.string2.some
       THEN /\ string2_operands_option' = None
            /\ pc' = "dispatch"
            /\ UNCHANGED <<err, failed_at, exit_code>>
       ELSE LET r == parse_string1_or_string2(args.string2.val)
            IN  IF r.ok
                THEN /\ string2_operands_option' = Some(r.val)
                     /\ pc' = "dispatch"
                     /\ UNCHANGED <<err, failed_at, exit_code>>
                ELSE /\ Fail(r.err)
                     /\ UNCHANGED string2_operands_option
    /\ UNCHANGED <<args, input, string1_operands, transformation_map,
                   result_string, to_write, stdout>>

(***************************************************************************)
(* The dispatcher of tr.                                                   *)
(***************************************************************************)
Complemented == args.complement_char \/ args.complement_val

\* the filter of the delete branch with the complement flags ignored
DeleteFilterNeverComplemented(text, set1, complemented) ==
    Filter(text, [i \in 1..Len(text) |-> ~Contains(set1, text[i])])

\* the filter of the delete branch
DeleteFilter(text, set1, complemented) ==
    IF complemented
    THEN Filter(text, [i \in 1..Len(text) |-> Contains(set1, text[i])])
    ELSE Filter(text, [i \in 1..Len(text) |-> ~Contains(set1, text[i])])

\* tr, `if args.delete`: the filtered_string
DeleteChars ==
    /\ pc = "dispatch"
    /\ args.delete
    /\ result_string' = DeleteFilter(input, string1_operands, Complemented)
    /\ pc' = "squeeze"
    /\ UNCHANGED <<args, input, string1_operands, string2_operands_option,
                   transformation_map, to_write, stdout, err, failed_at, exit_code>>

\* tr, `else if args.squeeze_repeats && string2_operands_option.is_none()`
SqueezeOnly ==
    /\ pc = "dispatch"
    /\ ~args.delete
    /\ args.squeeze_repeats /\ ~string2_operands_option.some
    /\ to_write' = SqueezeRepeats(input, string1_operands)
    /\ pc' = "write"
    /\ UNCHANGED <<args, input, string1_operands, string2_operands_option,
                   transformation_map, result_string, stdout, err, failed_at,
                   exit_code>>

\* the set2 handed to complement_chars with the flags taken for one another
ComplementSet2_flags_swapped(set2, complement_char) ==
    IF complement_char THEN SortOperands(set2) ELSE set2

\* the set2 handed to complement_chars: sorted for -c, as parsed for -C
ComplementSet2(set2, complement_char) ==
    IF complement_char THEN set2 ELSE SortOperands(set2)

\* tr, `else`, `if args.complement_char || args.complement_val`
ComplementTranslate ==
    /\ pc = "dispatch"
    /\ ~args.delete
    /\ ~(args.squeeze_repeats /\ ~string2_operands_option.some)
    /\ Complemented
    /\ IF ~string2_operands_option.some
       THEN /\ Panic("called Option::unwrap() on a None value")
            /\ UNCHANGED result_string
       ELSE LET r == complement_chars(input, string1_operands,
                         ComplementSet2(string2_operands_option.val,
                                        args.complement_char))
            IN  IF r.ok
                THEN /\ result_string' = r.val
                     /\ pc' = "squeeze"
                     /\ UNCHANGED <<err, failed_at, exit_code>>
                ELSE /\ Fail(r.err)
                     /\ UNCHANGED result_string
    /\ UNCHANGED <<args, input, string1_operands, string2_operands_option,
                   transformation_map, to_write, stdout>>

\* tr, `else`, the plain translation up to the transformation_map
BuildMap ==
    /\ pc = "dispatch"
    /\ ~args.delete
    /\ ~(args.squeeze_repeats /\ ~string2_operands_option.some)
    /\ ~Complemented
    /\ IF ~string2_operands_option.some
       THEN /\ Fail("tr: missing operand")
            /\ UNCHANGED transformation_map
       ELSE IF string2_operands_option.val = <<>>
       THEN /\ Fail("tr: when not truncating set1, string2 must be non-empty")
            /\ UNCHANGED transformation_map
       ELSE LET r == generate_transformation_hash_map(string1_operands,
                         string2_operands_option.val)
            IN  IF r.ok
                THEN /\ transformation_map' = r.val
                     /\ pc' = "translate"
                     /\ UNCHANGED <<err, failed_at, exit_code>>
                ELSE /\ Fail(r.err)
                     /\ UNCHANGED transformation_map
    /\ UNCHANGED <<args, input, string1_operands, string2_operands_option,
                   result_string, to_write, stdout>>

\* a translation that writes its result as soon as it is computed
TranslateWritesEagerly ==
    /\ pc = "translate"
    /\ result_string' = TranslateChars(input, transformation_map)
    /\ stdout' = Append(stdout, result_string')
    /\ pc' = "squeeze"
    /\ UNCHANGED <<args, input, string1_operands, string2_operands_option,
                   transformation_map, to_write, err, failed_at, exit_code>>

\* tr: `for ch in input.chars()` through the transformation_map
Translate ==
    /\ pc = "translate"
    /\ result_string' = TranslateChars(input, transformation_map)
    /\ pc' = "squeeze"
    /\ UNCHANGED <<args, input, string1_operands, string2_operands_option,
                   transformation_map, to_write, stdout, err, failed_at, exit_code>>

\* whether filtered_string_to_use / result_string_to_use is squeezed
SqueezeRequested ==
    IF args.delete
    THEN args.squeeze_repeats /\ string2_operands_option.some
    ELSE args.squeeze_repeats

\* a squeeze step that takes SET1 for its reference set
Squeeze_against_set1 ==
    /\ pc = "squeeze"
    /\ to_write' = IF SqueezeRequested
                   THEN SqueezeRepeats(result_string, string1_operands)
                   ELSE result_string
    /\ pc' = "write"
    /\ UNCHANGED <<args, input, string1_operands, string2_operands_option,
                   transformation_map, result_string, stdout, err, failed_at,
                   exit_code>>

\* tr: `let filtered_string_to_use = ...` / `let result_string_to_use = ...`
Squeeze ==
    /\ pc = "squeeze"
    /\ IF SqueezeRequested
       THEN IF ~string2_operands_option.some /\ result_string # <<>>
            THEN /\ Panic("called Option::unwrap() on a None value")
                 /\ UNCHANGED to_write
            ELSE /\ to_write' =
                        IF result_string = <<>> THEN <<>>
                        ELSE SqueezeRepeats(result_string, string2_operands_option.val)
                 /\ pc' = "write"
                 /\ UNCHANGED <<err, failed_at, exit_code>>
       ELSE /\ to_write' = result_string
            /\ pc' = "write"
            /\ UNCHANGED <<err, failed_at, exit_code>>
    /\ UNCHANGED <<args, input, string1_operands, string2_operands_option,
                   transformation_map, result_string, stdout>>

\* tr: `stdout_lock.write_all(...)?; Ok(())`
WriteOutput ==
    /\ pc = "write"
    /\ stdout' = Append(stdout, to_write)
    /\ exit_code' = 0
    /\ pc' = "exit"
    /\ UNCHANGED <<args, input, string1_operands, string2_operands_option,
                   transformation_map, result_string, to_write, err, failed_at>>

Next ==
    \/ ParseArgs
    \/ ValidateArgs
    \/ ReadInput
    \/ ParseString1
    \/ ParseString2
    \/ DeleteChars
    \/ SqueezeOnly
    \/ ComplementTranslate
    \/ BuildMap
    \/ Translate
    \/ Squeeze
    \/ WriteOutput

Spec == Init /\ [][Next]_vars

(***************************************************************************)
(* The parser alone: SET1 or SET2 is drawn from the repeat constructs and  *)
(* from the SETs of plain chars and hyphens, and parsed as tr parses it.   *)
(***************************************************************************)
\* the chars of the generated counts: '0', '1', '8', 'a', '+'
CountAlphabet == { Digit0, Digit0 + 1, Digit0 + 8, LowerA, PlusSign }

\* "[x*n]" for the generated counts n, and "[x*9999999999]"
RepeatConstructs ==
    { <<LBracket, 120, Asterisk>> \o n \o <<RBracket>> :
          n \in Texts(CountAlphabet, MaxCountLen)
                 \cup { <<57, 57, 57, 57, 57, 57, 57, 57, 57, 57>> } }

\* the chars of the generated plain SETs: 'a', 'c', 'x', '-'
PlainAlphabet == { LowerA, LowerA + 2, 120, Hyphen }

\* "a-f", "a-cx-z", "[a-c]", "\101-\103", "a-c[x*2]", "[a-c]x"
ExampleRanges ==
    { <<97, 45, 102>>, <<97, 45, 99, 120, 45, 122>>, <<91, 97, 45, 99, 93>>,
      <<92, 49, 48, 49, 45, 92, 49, 48, 51>>,
      <<97, 45, 99, 91, 120, 42, 50, 93>>, <<91, 97, 45, 99, 93, 120>> }

ParserStrings ==
    RepeatConstructs \cup Texts(PlainAlphabet, MaxPlainLen) \cup ExampleRanges

\* tr has read an empty input and is about to parse SET1 and SET2
ParserInit ==
    /\ pc = "parse1"
    /\ \E st \in ParserStrings :
          \/ args = [NoArgs EXCEPT !.string1 = st, !.string2 = Some(ExampleString2)]
          \/ args = [NoArgs EXCEPT !.string1 = ExampleString1, !.string2 = Some(st)]
    /\ input = <<>>
    /\ string1_operands = <<>>
    /\ string2_operands_option = None
    /\ transformation_map = EmptyMap
    /\ result_string = <<>>
    /\ to_write = <<>>
    /\ stdout = <<>>
    /\ err = ""
    /\ failed_at = ""
    /\ exit_code = -1

ParserNext ==
    \/ ParseString1
    \/ ParseString2

ParserSpec == ParserInit /\ [][ParserNext]_vars

(***************************************************************************)
(* The squeeze-only branch alone: tr -s SET1 on the texts over a, b, c.    *)
(***************************************************************************)
\* the SET1 of the squeeze-only runs: "a", "ab", "c", "a-c"
SqueezeSets == { <<97>>, <<97, 98>>, <<99>>, <<97, 45, 99>> }

\* tr -s SET1 has read its input and parsed SET1
SqueezeInit ==
    /\ pc = "dispatch"
    /\ \E st \in SqueezeSets :
          /\ args = [NoArgs EXCEPT !.squeeze_repeats = TRUE, !.string1 = st]
          /\ string1_operands = parse_string1_or_string2(st).val
    /\ input \in Texts({97, 98, 99}, MaxSqueezeLen)
    /\ string2_operands_option = None
    /\ transformation_map = EmptyMap
    /\ result_string = <<>>
    /\ to_write = <<>>
    /\ stdout = <<>>
    /\ err = ""
    /\ failed_at = ""
    /\ exit_code = -1

SqueezeNext ==
    \/ SqueezeOnly
    \/ WriteOutput

SqueezeSpec == SqueezeInit /\ [][SqueezeNext]_vars

(***************************************************************************)
(* Definitions shared by the properties.                                   *)
(***************************************************************************)
CharsOf(text) == {text[i] : i \in 1..Len(text)}

RECURSIVE FlatByCounts(_, _)
\* the chars of literal operands, each repeated counts[i] times
FlatByCounts(ops, counts) ==
    IF ops = <<>> THEN <<>>
    ELSE FlatByCounts(SubSeq(ops, 1, Len(ops) - 1), SubSeq(counts, 1, Len(ops) - 1))
         \o [k \in 1..counts[Len(ops)] |-> ops[Len(ops)].char]

LiteralOnly(ops) == \A i \in 1..Len(ops) : ops[i].kind = "Char"
FixedOnly(ops) ==
    LiteralOnly(ops) /\ \A i \in 1..Len(ops) : ops[i].char_repetition.tag = "N"

\* a literal-only set flattened by its fixed counts, a marker counting zero
FixedCounts(ops) ==
    [i \in 1..Len(ops) |->
        IF ops[i].char_repetition.tag = "N" THEN ops[i].char_repetition.n ELSE 0]
Flat(ops) == FlatByCounts(ops, FixedCounts(ops))

\* set2 reconciled with the length of the flattened set1: the shortfall goes
\* to the marker if there is one, to the last operand otherwise
ReconciledCounts(set2, set1_len) ==
    LET fixed == Len(Flat(set2))
        shortfall == IF fixed < set1_len THEN set1_len - fixed ELSE 0
        marked == \E i \in 1..Len(set2) : set2[i].char_repetition.tag # "N"
    IN  [i \in 1..Len(set2) |->
            IF set2[i].char_repetition.tag # "N" THEN shortfall
            ELSE IF ~marked /\ i = Len(set2) THEN set2[i].char_repetition.n + shortfall
            ELSE set2[i].char_repetition.n]
ReconciledFlat(set2, set1_len) == FlatByCounts(set2, ReconciledCounts(set2, set1_len))

LastIndexOf(text, c) ==
    CHOOSE i \in 1..Len(text) : text[i] = c /\ \A j \in (i + 1)..Len(text) : text[j] # c
FirstIndexOf(text, c) ==
    CHOOSE i \in 1..Len(text) : text[i] = c /\ \A j \in 1..(i - 1) : text[j] # c

\* out is the subsequence of text at the indices kept, in the order of text
IsSubsequenceAt(out, text, kept) ==
    /\ Len(out) = Cardinality(kept)
    /\ \A i \in kept : out[Cardinality({j \in kept : j <= i})] = text[i]

\* the invocation is a plain translation whose map has been built
PlainTranslation ==
    ~args.delete /\ ~Complemented /\ string2_operands_option.some
MapBuilt ==
    /\ PlainTranslation
    /\ err = ""
    /\ pc \in {"translate", "squeeze", "write", "exit"}
Translated == MapBuilt /\ pc # "translate"
Written == pc = "exit" /\ err = "" /\ Len(stdout) = 1

(***************************************************************************)
(* C1: in a plain translation the map is positional: its domain is the     *)
(* set of chars of the flattened set1, every such char maps to the char of *)
(* the flattened, length-reconciled set2 at the index of its last          *)
(* occurrence in the flattened set1, and every input char of the domain is *)
(* replaced by its image; "abc", "xyz" on "cab" writes "zxy".              *)
(***************************************************************************)
C1_PositionalMap ==
    /\ MapBuilt =>
          LET flat1 == Flat(string1_operands)
              flat2 == ReconciledFlat(string2_operands_option.val, Len(flat1))
          IN  /\ FixedOnly(string1_operands)
              /\ LiteralOnly(string2_operands_option.val)
              /\ DOMAIN transformation_map = CharsOf(flat1)
              /\ \A c \in CharsOf(flat1) :
                    transformation_map[c] = flat2[LastIndexOf(flat1, c)]
              /\ Translated =>
                    /\ Len(result_string) = Len(input)
                    /\ \A i \in 1..Len(input) :
                          input[i] \in DOMAIN transformation_map =>
                              result_string[i] = transformation_map[input[i]]
    /\ (/\ Written /\ PlainTranslation /\ ~args.squeeze_repeats
        /\ args.string1 = ExampleString1
        /\ args.string2 = Some(ExampleString2)
        /\ input = <<99, 97, 98>>) => stdout = << <<122, 120, 121>> >>

\* a translation is written whose set1 repeats a char of the input, and the
\* image of that char is not the one of its first occurrence
C1_Witness ==
    /\ Written /\ MapBuilt
    /\ LET flat1 == Flat(string1_operands)
           flat2 == ReconciledFlat(string2_operands_option.val, Len(flat1))
       IN  \E c \in CharsOf(input) \cap CharsOf(flat1) :
              /\ flat2[FirstIndexOf(flat1, c)] # flat2[LastIndexOf(flat1, c)]
              /\ \E i \in 1..Len(input) :
                    input[i] = c /\ result_string[i] = flat2[LastIndexOf(flat1, c)]

(***************************************************************************)
(* C2 as stated: in a plain translation, squeezed or not, no occurrence of *)
(* a char that is not in the flattened set1 is replaced or removed, so the *)
(* output holds at least as many occurrences of it as the input.           *)
(***************************************************************************)
C2_Original ==
    (Written /\ PlainTranslation) =>
        \A c \in CharsOf(input) \ CharsOf(Flat(string1_operands)) :
            Count(stdout[1], c) >= Count(input, c)

(***************************************************************************)
(* C2 as amended: in a plain translation a char that is not in the         *)
(* flattened set1 is never replaced; without squeeze the output keeps it   *)
(* at every position it has in the input; with squeeze every occurrence of *)
(* it is kept provided it is not a member of set2.                         *)
(***************************************************************************)
C2_UnmappedUnchanged ==
    /\ Translated =>
          \A i \in 1..Len(input) :
              input[i] \notin CharsOf(Flat(string1_operands)) =>
                  result_string[i] = input[i]
    /\ (Written /\ PlainTranslation) =>
          IF ~args.squeeze_repeats
          THEN /\ Len(stdout[1]) = Len(input)
               /\ \A i \in 1..Len(input) :
                     input[i] \notin CharsOf(Flat(string1_operands)) =>
                         stdout[1][i] = input[i]
          ELSE \A c \in CharsOf(input) \ CharsOf(Flat(string1_operands)) :
                   ~Contains(string2_operands_option.val, c) =>
                       Count(stdout[1], c) = Count(input, c)

\* a squeezed translation is written whose input repeats a char that is in
\* neither set, while a repeated member of set2 was squeezed
C2_Witness ==
    /\ Written /\ PlainTranslation /\ args.squeeze_repeats
    /\ Len(stdout[1]) < Len(input)
    /\ \E c \in CharsOf(input) \ CharsOf(Flat(string1_operands)) :
          /\ ~Contains(string2_operands_option.val, c)
          /\ Count(input, c) > 1
          /\ Count(stdout[1], c) = Count(input, c)

(***************************************************************************)
(* C3: a deletion without squeeze writes exactly the subsequence of the    *)
(* input chars that are not members of set1, or, with -c or -C, of those   *)
(* that are members of set1; "a" on "banana" writes "bnn".                 *)
(***************************************************************************)
C3_DeleteSubsequence ==
    (Written /\ args.delete /\ ~args.squeeze_repeats) =>
        /\ IsSubsequenceAt(stdout[1], input,
               {i \in 1..Len(input) :
                   Contains(string1_operands, input[i]) = Complemented})
        /\ (args.string1 = <<97>> /\ input = <<98, 97, 110, 97, 110, 97>>
            /\ ~Complemented) => stdout[1] = <<98, 110, 110>>

\* a complemented deletion is written that kept a member of an equivalence
\* class and dropped another char
C3_Witness ==
    /\ Written /\ args.delete /\ ~args.squeeze_repeats /\ Complemented
    /\ \E i \in 1..Len(string1_operands) : string1_operands[i].kind = "Equiv"
    /\ stdout[1] = <<233>>
    /\ Len(input) > 1

\* the invocation took the squeeze-only branch
SqueezeOnlyMode ==
    ~args.delete /\ args.squeeze_repeats /\ ~string2_operands_option.some
\* the squeeze filter has run: on which text, against which set
SqueezeApplied ==
    /\ pc \in {"write", "exit"}
    /\ err = ""
    /\ SqueezeOnlyMode \/ (SqueezeRequested /\ string2_operands_option.some)
SqueezedText == IF SqueezeOnlyMode THEN input ELSE result_string
SqueezeReference ==
    IF SqueezeOnlyMode THEN string1_operands ELSE string2_operands_option.val

\* the indices classic squeezing keeps: all but the second and later chars
\* of a run of a member of the set
RunSqueezeKept(text, set) ==
    {i \in 1..Len(text) : ~(i > 1 /\ text[i] = text[i - 1] /\ Contains(set, text[i]))}

(***************************************************************************)
(* C4 as stated: squeeze-only reduces each maximal run of a member of set1 *)
(* to one occurrence and keeps separate runs; "a" on "aaabaaa" writes      *)
(* "aba".                                                                  *)
(***************************************************************************)
C4_RunSqueeze ==
    (Written /\ SqueezeOnlyMode) =>
        /\ IsSubsequenceAt(stdout[1], input, RunSqueezeKept(input, string1_operands))
        /\ (args.string1 = <<97>> /\ input = <<97, 97, 97, 98, 97, 97, 97>>) =>
              stdout[1] = <<97, 98, 97>>

\* a char of the text that the squeeze step reduces to its first occurrence
Qualifies(text, set, c) == Count(text, c) > 1 /\ Contains(set, c)
WholeTextSqueezeKept(text, set) ==
    {i \in 1..Len(text) :
        Qualifies(text, set, text[i]) => i = FirstIndexOf(text, text[i])}

ComplementMode == ~args.delete /\ Complemented /\ string2_operands_option.some
PassSet2 == ComplementSet2(string2_operands_option.val, args.complement_char)
ComplementDone == ComplementMode /\ err = "" /\ pc \in {"squeeze", "write", "exit"}

\* the number of chars of text before index i that are not members of set
NonMembersBefore(text, set, i) ==
    Cardinality({j \in 1..(i - 1) : ~Contains(set, text[j])})

(***************************************************************************)
(* C6: complement_chars with a non-empty set2 of literals with fixed       *)
(* counts returns as many chars as the input has: a member of set1 is      *)
(* emitted unchanged, and the k-th (from 0) char that is not a member is   *)
(* replaced by F[k mod T], F being set2 flattened by its counts and T its  *)
(* length.                                                                 *)
(***************************************************************************)
C6_ComplementCycle ==
    (/\ ComplementMode
     /\ pc \in {"squeeze", "write", "exit"}
     /\ PassSet2 # <<>>
     /\ FixedOnly(PassSet2)) =>
        LET F == Flat(PassSet2)
        IN  /\ err = ""
            /\ Len(result_string) = Len(input)
            /\ \A i \in 1..Len(input) :
                  result_string[i] =
                      IF Contains(string1_operands, input[i]) THEN input[i]
                      ELSE F[(NonMembersBefore(input, string1_operands, i) % Len(F)) + 1]

\* a pass over a set2 of two operands, one of them with a count of 2, has
\* kept a member of set1 and wrapped around set2
C6_Witness ==
    /\ ComplementDone
    /\ Len(PassSet2) = 2 /\ FixedOnly(PassSet2) /\ Len(Flat(PassSet2)) = 3
    /\ \E i \in 1..Len(input) : Contains(string1_operands, input[i])
    /\ NonMembersBefore(input, string1_operands, Len(input) + 1) > 3

\* the combinations of flags and operands the validation rejects
RejectedCombination(a) ==
    \/ a.complement_char /\ a.complement_val
    \/ (a.complement_char \/ a.complement_val) /\ ~a.delete /\ ~a.string2.some
    \/ ~a.squeeze_repeats /\ ~a.delete /\ ~a.string2.some
    \/ a.string1 = <<>>
NothingDone ==
    /\ input = <<>>
    /\ string1_operands = <<>>
    /\ string2_operands_option = None
    /\ stdout = <<>>

(***************************************************************************)
(* C7: the validation runs before any SET is parsed and before any output, *)
(* and rejects exactly: -c with -C; -c or -C without -d and without SET2;  *)
(* neither -s nor -d without SET2; an empty SET1.                          *)
(***************************************************************************)
C7_ValidationExact ==
    /\ pc \in {"main", "validate"} => NothingDone
    /\ pc \notin {"main", "validate"} =>
          /\ (pc = "exit" /\ failed_at = "validate") <=> RejectedCombination(args)
          /\ RejectedCombination(args) => NothingDone /\ err # ""

\* -s with -c, without -d and without SET2, has been rejected
C7_Witness ==
    /\ pc = "exit" /\ failed_at = "validate"
    /\ args.squeeze_repeats /\ args.complement_val /\ ~args.delete
    /\ ~args.string2.some /\ args.string1 # <<>>

(***************************************************************************)
(* C8: the output is written at most once, as the last step of an          *)
(* invocation that succeeded, and it is the complete result of the mode;   *)
(* an invocation that ended in an error has written nothing.               *)
(***************************************************************************)
C8_SingleWrite ==
    /\ Len(stdout) <= 1
    /\ stdout # <<>> =>
          pc = "exit" /\ err = "" /\ exit_code = 0 /\ stdout[1] = to_write
    /\ err # "" => stdout = <<>> /\ pc = "exit" /\ exit_code # 0

\* a translation whose map could not be built has ended without output
C8_Witness ==
    /\ pc = "exit" /\ failed_at = "dispatch" /\ PlainTranslation
    /\ input # <<>> /\ stdout = <<>>

(***************************************************************************)
(* C9 as stated: once the validation, the parsing of both SETs and the     *)
(* building of the map have succeeded, the pass that produces the output   *)
(* returns no error: an invocation only fails in the validation, in the    *)
(* parsing, or in the building of the map of a plain translation.          *)
(***************************************************************************)
C9_PassCannotFail ==
    (pc = "exit" /\ err # "") =>
        \/ failed_at \in {"validate", "parse1", "parse2"}
        \/ failed_at = "dispatch" /\ ~Complemented

\* the number of AsManyAsNeeded operands of a set
Markers(ops) ==
    Cardinality({i \in 1..Len(ops) :
        ops[i].kind = "Char" /\ ops[i].char_repetition.tag = "AsManyAsNeeded"})

(***************************************************************************)
(* C10 as stated: an invocation whose SET2 parses to more than one         *)
(* AsManyAsNeeded operand ends in an error and writes nothing, whichever   *)
(* mode the flags select.                                                  *)
(***************************************************************************)
C10_TwoMarkersFatal ==
    (/\ pc = "exit"
     /\ string2_operands_option.some
     /\ Markers(string2_operands_option.val) > 1) => err # "" /\ stdout = <<>>

(***************************************************************************)
(* C11: an invocation that translates (no -d, SET2 given, with or without  *)
(* a complement flag) with a [c*] construct in SET1 ends in the error      *)
(* "the [c*] repeat construct may not appear in string1" and writes        *)
(* nothing.                                                                *)
(***************************************************************************)
C11_MarkerInSet1Fatal ==
    (/\ pc = "exit"
     /\ failed_at \notin { "validate", "parse1", "parse2" }
     /\ ~args.delete
     /\ string2_operands_option.some
     /\ Markers(string1_operands) > 0)
        => /\ err = "tr: the [c*] repeat construct may not appear in string1"
           /\ stdout = <<>>

\* the plain translation has left the dispatcher with a set2 of fixed counts
\* that is not empty and shorter, flattened, than the flattened set1
ShortFixedSet2 ==
    /\ PlainTranslation
    /\ pc \in {"translate", "squeeze", "write", "exit"}
    /\ failed_at \in {"", "dispatch"}
    /\ FixedOnly(string1_operands)
    /\ string2_operands_option.val # <<>>
    /\ FixedOnly(string2_operands_option.val)
    /\ Len(Flat(string2_operands_option.val)) < Len(Flat(string1_operands))

(***************************************************************************)
(* C12: when a plain translation builds its map from a set1 of literals    *)
(* with fixed counts and a non-empty set2 of literals with fixed counts    *)
(* whose counts sum to less than set1's, string2_operands_to_use is set2   *)
(* with the count of its last operand increased by exactly the shortfall,  *)
(* the build does not return "Indexing failed", and every char of the      *)
(* flattened set1 at a position beyond the flattened length of set2 maps   *)
(* to the char of set2's last operand.                                     *)
(***************************************************************************)
C12_LastOperandPadded ==
    ShortFixedSet2 =>
        LET set2 == string2_operands_option.val
            flat1 == Flat(string1_operands)
            fixed_len == Len(Flat(set2))
            shortfall == Len(flat1) - fixed_len
            last == set2[Len(set2)]
            to_use == ExtendString2(set2, None, fixed_len, Len(flat1))
        IN  /\ to_use.ok
            /\ Len(to_use.val) = Len(set2)
            /\ \A i \in 1..Len(set2) :
                  to_use.val[i] =
                      IF i = Len(set2)
                      THEN Char(last.char, N(last.char_repetition.n + shortfall))
                      ELSE set2[i]
            /\ err = ""
            /\ \A i \in (fixed_len + 1)..Len(flat1) :
                  transformation_map[flat1[i]] = last.char

\* such a translation is written, and a char of the input is one that set1
\* holds beyond the length of set2 and differs from its image
C12_Witness ==
    /\ ShortFixedSet2 /\ Written
    /\ LET set2 == string2_operands_option.val
           flat1 == Flat(string1_operands)
       IN  \E i \in (Len(Flat(set2)) + 1)..Len(flat1) :
              /\ flat1[i] # set2[Len(set2)].char
              /\ \E j \in 1..Len(input) :
                    input[j] = flat1[i] /\ result_string[j] = set2[Len(set2)].char

\* SET1 has been parsed, SET2 has been parsed
Set1Parsed ==
    /\ pc \notin {"main", "validate", "read", "parse1"}
    /\ failed_at \notin {"validate", "parse1"}
Set2Parsed ==
    /\ Set1Parsed
    /\ pc # "parse2"
    /\ failed_at # "parse2"
    /\ args.string2.some

\* the SETs parsed so far, each with its operands, and the SET whose parsing
\* failed
ParsedSets ==
    (IF Set1Parsed THEN { <<args.string1, string1_operands>> } ELSE {})
    \cup (IF Set2Parsed
          THEN { <<args.string2.val, string2_operands_option.val>> } ELSE {})
RefusedSets ==
    IF pc = "exit" /\ failed_at = "parse1" THEN { args.string1 }
    ELSE IF pc = "exit" /\ failed_at = "parse2" THEN { args.string2.val }
    ELSE {}

Alphanumeric(c) ==
    \/ c >= 48 /\ c <= 57
    \/ c >= 65 /\ c <= 90
    \/ c >= 97 /\ c <= 122
\* a SET of alphanumeric chars and hyphens only
PlainSet(st) == \A i \in 1..Len(st) : Alphanumeric(st[i]) \/ st[i] = 45
\* a SET that is, as a whole, x-y for alphanumeric x and y
BareRange(st) ==
    Len(st) = 3 /\ Alphanumeric(st[1]) /\ st[2] = 45 /\ Alphanumeric(st[3])
\* one literal with a repetition of 1 for every char of a text
OneLiteralEach(text) ==
    [i \in 1..Len(text) |->
        [kind |-> "Char", char |-> text[i], char_repetition |-> [tag |-> "N", n |-> 1]]]

RepeatConstruct(st) ==
    /\ Len(st) >= 4
    /\ st[1] = 91
    /\ st[2] \notin {58, 61}
    /\ st[3] = 42
    /\ st[Len(st)] = 93
    /\ \A i \in 4..(Len(st) - 1) : st[i] # 93
CountText(st) == SubSeq(st, 4, Len(st) - 1)
SelectedBase(n) == IF n[1] = 48 THEN 8 ELSE 10
DigitsOf(n, base) ==
    n # <<>> /\ \A i \in 1..Len(n) : n[i] >= 48 /\ n[i] < 48 + base
Unsigned(n) == IF n # <<>> /\ n[1] = 43 THEN Tail(n) ELSE n

RECURSIVE NumberValue(_, _)
\* the value of a text of digits in a base, -1 for a value beyond UsizeMax
NumberValue(n, base) ==
    IF n = <<>> THEN 0
    ELSE LET front == NumberValue(SubSeq(n, 1, Len(n) - 1), base)
             digit == n[Len(n)] - 48
         IN  IF front < 0 \/ front > (UsizeMax - digit) \div base THEN -1
             ELSE front * base + digit
Countable(n, base) == NumberValue(n, base) >= 0

\* the one operand a repeat construct for c stands for
RepeatOperand(c, value) ==
    <<[kind |-> "Char", char |-> c,
       char_repetition |-> IF value = 0 THEN [tag |-> "AsManyAsNeeded", n |-> 0]
                           ELSE [tag |-> "N", n |-> value]]>>

\* no parsed SET holds a literal with a repetition of N(0)
NoFixedZero ==
    \A p \in ParsedSets : \A i \in 1..Len(p[2]) :
        (p[2][i].kind = "Char" /\ p[2][i].char_repetition.tag = "N")
            => p[2][i].char_repetition.n > 0

(***************************************************************************)
(* C14 as stated: "[c*n]" parses to one literal for c that is as many as   *)
(* needed when n is empty or a number of value zero, and has otherwise the *)
(* value of n as its repetition, n read in base 8 when it starts with '0'  *)
(* and in base 10 when not; it is refused with the invalid repeat count    *)
(* error when n is not a text of digits of that base; no literal is N(0).  *)
(***************************************************************************)
C14_Original ==
    /\ \A p \in ParsedSets :
          RepeatConstruct(p[1]) =>
              LET n == CountText(p[1])
              IN  IF n = <<>> THEN p[2] = RepeatOperand(p[1][2], 0)
                  ELSE /\ DigitsOf(n, SelectedBase(n))
                       /\ p[2] = RepeatOperand(p[1][2], NumberValue(n, SelectedBase(n)))
    /\ \A st \in RefusedSets :
          RepeatConstruct(st) =>
              /\ CountText(st) # <<>>
              /\ ~DigitsOf(CountText(st), SelectedBase(CountText(st)))
              /\ err = "tr: invalid repeat count in [c*n] construct"
    /\ NoFixedZero

(***************************************************************************)
(* C14, amended: as above, with a number being a text of digits of the     *)
(* selected base after an optional leading '+' (a '+' selects base 10),    *)
(* and with "[c*n]" refused with the invalid repeat count error also when  *)
(* the value of n is beyond the largest count, UsizeMax.                   *)
(***************************************************************************)
C14_RepeatCount ==
    /\ \A p \in ParsedSets :
          RepeatConstruct(p[1]) =>
              LET n == CountText(p[1])
              IN  IF n = <<>> THEN p[2] = RepeatOperand(p[1][2], 0)
                  ELSE /\ DigitsOf(Unsigned(n), SelectedBase(n))
                       /\ Countable(Unsigned(n), SelectedBase(n))
                       /\ p[2] = RepeatOperand(p[1][2],
                                     NumberValue(Unsigned(n), SelectedBase(n)))
    /\ \A st \in RefusedSets :
          RepeatConstruct(st) =>
              LET n == CountText(st)
              IN  /\ n # <<>>
                  /\ \/ ~DigitsOf(Unsigned(n), SelectedBase(n))
                     \/ ~Countable(Unsigned(n), SelectedBase(n))
                  /\ err = "tr: invalid repeat count in [c*n] construct"
    /\ NoFixedZero

\* "[x*010]" has been parsed, as SET2, to one literal x with a repetition of 8
C14_Witness ==
    /\ Set2Parsed
    /\ args.string2.val = <<91, 120, 42, 48, 49, 48, 93>>
    /\ string2_operands_option.val = RepeatOperand(120, 8)

\* the chars a pass emits in place of the chars that are not members of set1
Substituted ==
    Filter(result_string,
           [i \in 1..Len(input) |-> ~Contains(string1_operands, input[i])])

\* an operand whose counter is unbounded: an equivalence or a [c*]
Unbounded(op) == op.kind = "Equiv" \/ op.char_repetition.tag = "AsManyAsNeeded"
CounterOf(op) == IF Unbounded(op) THEN 0 ELSE op.char_repetition.n

RECURSIVE HeldCursorEmits(_, _, _, _)
\* the m chars emitted from the operand at index i with `left` uses left,
\* by a cursor that stays on an unbounded operand and moves on from a fixed
\* one once its counter has reached zero
HeldCursorEmits(set2, i, left, m) ==
    IF m = 0 THEN <<>>
    ELSE IF Unbounded(set2[i])
    THEN <<set2[i].char>> \o HeldCursorEmits(set2, i, left, m - 1)
    ELSE IF left > 1
    THEN <<set2[i].char>> \o HeldCursorEmits(set2, i, left - 1, m - 1)
    ELSE LET j == IF i = Len(set2) THEN 1 ELSE i + 1
         IN  <<set2[i].char>> \o HeldCursorEmits(set2, j, CounterOf(set2[j]), m - 1)

(***************************************************************************)
(* C15 as stated: in a complemented translation the cursor into set2 moves *)
(* on only when the counter of a literal with a fixed count reaches zero,  *)
(* and stays for good on an equivalence or a [c*] operand, so the chars    *)
(* substituted are those of a cursor that is held by the first such        *)
(* operand it comes to.                                                    *)
(***************************************************************************)
C15_UnboundedOperandsHold ==
    (ComplementDone /\ PassSet2 # <<>>) =>
        Substituted =
            HeldCursorEmits(PassSet2, 1, CounterOf(PassSet2[1]), Len(Substituted))

\* the plain translation has left the dispatcher with a set1 of fixed counts
\* and a set2 of literals that holds exactly one [c*]
OneMarkerSet2 ==
    /\ PlainTranslation
    /\ pc \in {"translate", "squeeze", "write", "exit"}
    /\ failed_at \in {"", "dispatch"}
    /\ FixedOnly(string1_operands)
    /\ LiteralOnly(string2_operands_option.val)
    /\ Markers(string2_operands_option.val) = 1

\* the index of the [c*] of a set of literals that holds one
MarkerIndex(ops) ==
    CHOOSE k \in 1..Len(ops) : ops[k].char_repetition.tag = "AsManyAsNeeded"

(***************************************************************************)
(* C16: when a plain translation builds its map from a set1 of literals    *)
(* with fixed counts and a set2 of literals with exactly one [c*], at      *)
(* index k: if the fixed counts of set2 sum to less than the length of the *)
(* flattened set1, string2_operands_to_use is set2 with the [c*] given the *)
(* shortfall as its count, and its flattening is as long as the flattened  *)
(* set1: the operands before k, the char of the [c*] shortfall times, the  *)
(* operands after k; if not, set2 is used unchanged and the [c*] adds no   *)
(* char.  The map is built, position by position, from that flattening.    *)
(***************************************************************************)
C16_MarkerTakesShortfall ==
    OneMarkerSet2 =>
        LET set2 == string2_operands_option.val
            k == MarkerIndex(set2)
            flat1 == Flat(string1_operands)
            fixed_len == Len(Flat(set2))
            shortfall == IF fixed_len < Len(flat1) THEN Len(flat1) - fixed_len ELSE 0
            expected == Flat(SubSeq(set2, 1, k - 1))
                        \o [i \in 1..shortfall |-> set2[k].char]
                        \o Flat(SubSeq(set2, k + 1, Len(set2)))
            to_use == ExtendString2(set2, Some(k - 1), fixed_len, Len(flat1))
            flattened == FlattenString2(to_use.val, 1, <<>>)
        IN  /\ to_use.ok
            /\ Len(to_use.val) = Len(set2)
            /\ \A i \in 1..Len(set2) :
                  to_use.val[i] =
                      IF i = k /\ shortfall > 0
                      THEN [kind |-> "Char", char |-> set2[k].char,
                            char_repetition |-> [tag |-> "N", n |-> shortfall]]
                      ELSE set2[i]
            /\ flattened.ok
            /\ flattened.val = expected
            /\ shortfall > 0 => Len(expected) = Len(flat1)
            /\ err = ""
            /\ \A i \in 1..Len(flat1) :
                  transformation_map[flat1[i]] = expected[LastIndexOf(flat1, flat1[i])]

\* such a translation is written with a [c*] that is not the last operand of
\* set2 and takes a shortfall, and a char of the input is mapped to the char
\* of the operand after the [c*]
C16_Witness ==
    /\ OneMarkerSet2 /\ Written
    /\ LET set2 == string2_operands_option.val
           k == MarkerIndex(set2)
           flat1 == Flat(string1_operands)
       IN  /\ k < Len(set2)
           /\ Len(Flat(set2)) < Len(flat1)
           /\ set2[k].char # set2[k + 1].char
           /\ \E j \in 1..Len(input) :
                 /\ input[j] = flat1[Len(flat1)]
                 /\ input[j] # set2[k + 1].char
                 /\ result_string[j] = set2[k + 1].char

\* the place of operand j of ops in ascending order of the stored chars, the
\* operands of one char in their order in ops
RankOf(ops, j) ==
    1 + Cardinality({m \in 1..Len(ops) : ops[m].char < ops[j].char})
      + Cardinality({m \in 1..(j - 1) : ops[m].char = ops[j].char})
StablySorted(ops) ==
    [i \in 1..Len(ops) |-> ops[CHOOSE j \in 1..Len(ops) : RankOf(ops, j) = i]]

\* the set2 a complemented translation is to consume
ConsumedSet2 ==
    IF args.complement_val /\ ~args.complement_char
    THEN StablySorted(string2_operands_option.val)
    ELSE string2_operands_option.val

(***************************************************************************)
(* C17: a complemented translation with -c hands complement_chars set2     *)
(* sorted in ascending order of the stored chars of its operands, literal  *)
(* or equivalence alike, operands of one char in their parsed order; with  *)
(* -C it hands it set2 as parsed.  The result of the translation, or its   *)
(* error, is that of one pass over that set2.                              *)
(***************************************************************************)
C17_SortedForComplementValue ==
    (/\ ComplementMode
     /\ pc \in {"squeeze", "write", "exit"}
     /\ failed_at \in {"", "dispatch"}) =>
        LET r == complement_chars(input, string1_operands, ConsumedSet2)
        IN  /\ PassSet2 = ConsumedSet2
            /\ IF r.ok THEN err = "" /\ result_string = r.val
               ELSE err = r.err /\ pc = "exit"

\* a translation with -c is written whose set2 is not in ascending order as
\* parsed, and whose first substitute is not the char of set2's first operand
C17_Witness ==
    /\ ComplementDone /\ Written
    /\ args.complement_val
    /\ StablySorted(string2_operands_option.val) # string2_operands_option.val
    /\ Substituted # <<>>
    /\ Substituted[1] # string2_operands_option.val[1].char
    /\ Substituted[1] = StablySorted(string2_operands_option.val)[1].char

\* the squeeze step of tr applied to a text against a reference set
SqueezedBy(text, set) ==
    Filter(text, [i \in 1..Len(text) |-> i \in WholeTextSqueezeKept(text, set)])

\* the deletion of the members of set1, or with a complement flag of the
\* chars that are not members, from the input
Deletion ==
    Filter(input, [i \in 1..Len(input) |->
                      Contains(string1_operands, input[i]) = Complemented])

(***************************************************************************)
(* C18: what a run that ends well writes, by its flags.  With -d it writes *)
(* the deletion, squeezed against SET2 when -s is set and SET2 is given,   *)
(* and as it is when not (-d -s without SET2 included).  Without -d, with  *)
(* -s and no SET2, it writes the input squeezed against SET1.  In every    *)
(* other case it writes the translation of the input, by complement_chars  *)
(* with a complement flag and through the map without, squeezed against    *)
(* SET2 when -s is set.  Only a translation without a complement flag      *)
(* builds a map.                                                           *)
(***************************************************************************)
C18_ModeAndReferenceSet ==
    Written =>
        /\ stdout[1] = to_write
        /\ IF args.delete
           THEN /\ result_string = Deletion
                /\ to_write =
                       IF args.squeeze_repeats /\ args.string2.some
                       THEN SqueezedBy(Deletion, string2_operands_option.val)
                       ELSE Deletion
                /\ transformation_map = EmptyMap
           ELSE IF args.squeeze_repeats /\ ~args.string2.some
           THEN /\ to_write = SqueezedBy(input, string1_operands)
                /\ result_string = <<>>
                /\ transformation_map = EmptyMap
           ELSE /\ args.string2.some
                /\ IF Complemented
                   THEN /\ result_string =
                               complement_chars(input, string1_operands, PassSet2).val
                        /\ transformation_map = EmptyMap
                   ELSE result_string = TranslateChars(input, transformation_map)
                /\ to_write =
                       IF args.squeeze_repeats
                       THEN SqueezedBy(result_string, string2_operands_option.val)
                       ELSE result_string

\* a run with -d, -s and SET2 is written whose squeeze against SET2 has
\* dropped a char of the deletion that is no member of SET1
C18_Witness ==
    /\ Written
    /\ args.delete /\ args.squeeze_repeats /\ args.string2.some
    /\ ~Complemented
    /\ stdout[1] # Deletion
    /\ stdout[1] # SqueezedBy(Deletion, string1_operands)
    /\ stdout[1] = SqueezedBy(Deletion, string2_operands_option.val)

\* the occurrences of c in text are next to one another
OneRun(text, c) ==
    \A i \in 1..Len(text) : \A j \in i..Len(text) :
        (text[i] = c /\ text[j] = c) => \A m \in i..j : text[m] = c
\* every char of text that the squeeze step reduces occurs in one run
QualifyingInOneRun(text, set) ==
    \A c \in CharsOf(text) : Qualifies(text, set, c) => OneRun(text, c)
\* classic squeezing: each run of a member of the set reduced to one char
RunSqueezed(text, set) ==
    Filter(text, [i \in 1..Len(text) |-> i \in RunSqueezeKept(text, set)])

(***************************************************************************)
(* C19: when every char of the squeezed text that is a member of the       *)
(* reference set and occurs more than once occurs in one run, the squeeze  *)
(* step writes what classic squeezing of adjacent runs writes; so the two  *)
(* differ only for a text in which such a char occurs in separated runs.   *)
(***************************************************************************)
C19_SameAsRunSqueezeWhenContiguous ==
    SqueezeApplied =>
        /\ QualifyingInOneRun(SqueezedText, SqueezeReference) =>
               to_write = RunSqueezed(SqueezedText, SqueezeReference)
        /\ to_write # RunSqueezed(SqueezedText, SqueezeReference) =>
               \E c \in CharsOf(SqueezedText) :
                   /\ Qualifies(SqueezedText, SqueezeReference, c)
                   /\ ~OneRun(SqueezedText, c)

\* a squeeze is written of a text with a run of a member of the reference
\* set, a run of a char outside it, and every repeated member in one run
C19_Witness ==
    /\ SqueezeApplied /\ Written
    /\ QualifyingInOneRun(SqueezedText, SqueezeReference)
    /\ Len(stdout[1]) < Len(SqueezedText)
    /\ \E i \in 2..Len(SqueezedText) :
          /\ SqueezedText[i] = SqueezedText[i - 1]
          /\ ~Contains(SqueezeReference, SqueezedText[i])
    /\ stdout[1] = RunSqueezed(SqueezedText, SqueezeReference)

(***************************************************************************)
(* C20: no invocation that validate_args accepts unwraps an absent SET2:   *)
(* none ends in the panic of Option::unwrap on None, and a step that       *)
(* unwraps SET2 (a complemented translation, a squeeze of a non-empty      *)
(* result against SET2) is taken only with SET2 given.                     *)
(***************************************************************************)
C20_NoUnwrapOfAbsentSet2 ==
    /\ exit_code # 101
    /\ err # "called Option::unwrap() on a None value"
    /\ (pc = "dispatch" /\ ~args.delete /\ Complemented) => args.string2.some
    /\ (pc = "squeeze" /\ SqueezeRequested /\ result_string # <<>>) =>
           string2_operands_option.some

\* a run with -d and -s and without SET2 has passed the squeeze step with a
\* deletion that is not empty, and is written
C20_Witness ==
    /\ Written
    /\ args.delete /\ args.squeeze_repeats
    /\ ~args.string2.some
    /\ result_string # <<>>
    /\ stdout[1] = result_string

\* the state of the loop of complement_chars before it reads input[k]
LoopStateBefore(k) ==
    ComplementLoop(SubSeq(input, 1, k - 1), 1,
        [result |-> <<>>, chars2_index |-> 0, depleted |-> InitialDepleted(PassSet2),
         err |-> ""],
        string1_operands, PassSet2, InitialDepleted(PassSet2))

\* the indices of the chars of the input that are substituted
SubstitutedAt == {k \in 1..Len(input) : ~Contains(string1_operands, input[k])}

\* a complemented translation has run its pass, to its result or to an error
PassRun ==
    /\ ComplementMode
    /\ pc \in {"squeeze", "write", "exit"}
    /\ failed_at \in {"", "dispatch"}

\* the pass underflows no counter, and fails to index set2 only when set2
\* is empty and a char of the input is no member of set1
PassErrors ==
    /\ err # "attempt to subtract with overflow"
    /\ err = "Indexing failed" => (PassSet2 = <<>> /\ SubstitutedAt # {})

(***************************************************************************)
(* C21 as stated: before every substitution of complement_chars over a     *)
(* set2 that is not empty, chars2_index is at least 0 and less than the    *)
(* length of set2, and every counter is at least 1 and at most its initial *)
(* value; the decrement never underflows, and "Indexing failed" is         *)
(* returned only when set2 is empty and a char of the input is no member   *)
(* of set1.                                                                *)
(***************************************************************************)
C21_Original ==
    PassRun =>
        /\ PassSet2 # <<>> =>
              \A k \in SubstitutedAt :
                  LET st == LoopStateBefore(k)
                  IN  /\ st.err = ""
                      /\ st.chars2_index >= 0
                      /\ st.chars2_index < Len(PassSet2)
                      /\ \A j \in 1..Len(PassSet2) :
                            /\ st.depleted[j] >= 1
                            /\ st.depleted[j] <= InitialDepleted(PassSet2)[j]
        /\ PassErrors

(***************************************************************************)
(* C21, amended: before every substitution of complement_chars over a set2 *)
(* that is not empty, chars2_index is at least 0 and less than the length  *)
(* of set2, and the counter of the operand at chars2_index is at least 1   *)
(* and at most its initial value.  The counter of an operand before        *)
(* chars2_index is 0 for a literal and the initial value for an            *)
(* equivalence, until the wrap resets the counters; the counter of an      *)
(* operand after chars2_index has its initial value.  The decrement never  *)
(* underflows, and "Indexing failed" is returned only when set2 is empty   *)
(* and a char of the input is no member of set1.                           *)
(***************************************************************************)
C21_CursorAndCounters ==
    PassRun =>
        /\ PassSet2 # <<>> =>
              \A k \in SubstitutedAt :
                  LET st == LoopStateBefore(k)
                      at == st.chars2_index + 1
                      initial == InitialDepleted(PassSet2)
                  IN  /\ st.err = ""
                      /\ st.chars2_index >= 0
                      /\ st.chars2_index < Len(PassSet2)
                      /\ st.depleted[at] >= 1
                      /\ st.depleted[at] <= initial[at]
                      /\ \A j \in 1..(at - 1) :
                            st.depleted[j] =
                                IF PassSet2[j].kind = "Char" THEN 0 ELSE initial[j]
                      /\ \A j \in (at + 1)..Len(PassSet2) : st.depleted[j] = initial[j]
        /\ PassErrors

\* a pass is written that has substituted a char after the cursor had left
\* a literal, whose counter was 0 then, and has substituted one after a wrap
C21_Witness ==
    /\ PassRun /\ Written
    /\ Len(PassSet2) >= 2
    /\ \E k \in SubstitutedAt :
          /\ LoopStateBefore(k).chars2_index = 1
          /\ LoopStateBefore(k).depleted[1] = 0
    /\ \E k \in SubstitutedAt :
          /\ LoopStateBefore(k).chars2_index = 0
          /\ LoopStateBefore(k).result # <<>>
          /\ \E m \in SubstitutedAt : m < k /\ LoopStateBefore(m).chars2_index = 1

====
